---------------------------- MODULE Spec2Model ----------------------------
(***************************************************************************)
(* A model of canvec.py: the ShapefileList iterator (batched extraction of *)
(* matching zip entries into a temp directory, with one-step-behind        *)
(* deletion) and the CanvecExtractor._createSql loop that drives it        *)
(* (one shp2pgsql call per shapefile, output rotated by size).             *)
(***************************************************************************)
EXTENDS Integers, Sequences, FiniteSets, TLC

(***************************************************************************)
(* Bounds of the model and constants of the program.                       *)
(***************************************************************************)
\* Number of files found under the data directory.
MaxFiles == 3
\* Largest small batch size tried (the default batch size is tried as well).
MaxBatch == 2
\* Number of cleanup() calls a caller makes on one ShapefileList.
MaxCleanups == 2
\* Number of files under the data directory in a run of _createSql.
MaxRunFiles == 2
\* batchSize = 50, the default of ShapefileList.__init__.
DefaultBatchSize == 50

\* An attribute that may be None or missing holds <<>> then, and <<v>> when it
\* holds the value v.
None == <<>>
Some(v) == <<v>>
Get(o) == o[1]
\* The return value of next() when nothing is left; a shapefile e is Some(e).
False == <<>>

\* The search pattern handed to ShapefileList (a CanVec feature code).
pattern == "FO"

(***************************************************************************)
(* The files under the data directory.  A file has a name extension, and   *)
(* when it is a zip archive, the entry names it holds; ok = FALSE is an     *)
(* archive ZipFile() cannot open.  An entry name is <<code, id, ext>>, as   *)
(* in 021m07_1_0_FO_1030009_1.shp: the feature code, the rest of the name   *)
(* and the extension.                                                       *)
(***************************************************************************)
FileKinds ==
  { [ext |-> "txt", ok |-> TRUE,  entries |-> <<>>],
    [ext |-> "zip", ok |-> TRUE,  entries |-> << <<"BS", 1, "shp">> >>],
    [ext |-> "zip", ok |-> TRUE,
       entries |-> << <<"FO", 1, "shp">>, <<"FO", 1, "dbf">>, <<"FO", 2, "shp">> >>],
    [ext |-> "zip", ok |-> TRUE,  entries |-> << <<"FO", 1, "shp">> >>],
    [ext |-> "zip", ok |-> TRUE,  entries |-> << <<"FO", 3, "shp">> >>],
    [ext |-> "zip", ok |-> TRUE,  entries |-> << <<"FO", 3, "dbf">> >>],
    [ext |-> "zip", ok |-> FALSE, entries |-> << <<"FO", 3, "shp">> >>] }

BatchSizes == (1..MaxBatch) \cup {DefaultBatchSize}

VARIABLES
  files,       \* the data directory: the files os.walk yields, in its order
  disk,        \* the temp directory: the extracted files present in it
  sl,          \* the ShapefileList object
  out,         \* what _loadShpList printed: the archives it failed to open
  yielded,     \* the values next() has returned so far, False excluded
  lastCall,    \* the most recent call on the ShapefileList
  lastRet,     \* what that call returned
  lastNext,    \* what the most recent next() returned
  doneNow,     \* files of the batch whose last shapefile the most recent next() returned
  doneBefore,  \* files of the batches whose last shapefile an earlier next() returned
  cleanups,    \* number of cleanup() calls made
  outExt,      \* the extension of the outFile handed to extract()
  ctl,         \* _createSql: where it is, and its local variables
  segs,        \* the output files by number: the sizes written to each, in order
  calls,       \* the shp2pgsql invocations so far
  cwd          \* the current working directory of the process

slVars == <<files, disk, sl, out, yielded, lastCall, lastRet, lastNext,
            doneNow, doneBefore, cleanups>>

runVars == <<outExt, ctl, segs, calls, cwd>>

vars == <<files, disk, sl, out, yielded, lastCall, lastRet, lastNext,
          doneNow, doneBefore, cleanups, outExt, ctl, segs, calls, cwd>>

Range(s) == { s[k] : k \in 1..Len(s) }

(***************************************************************************)
(* Regular expressions of the program, on the structured names.            *)
(***************************************************************************)
\* re.compile('\.zip$').search(l)
IsZip(f) == f.ext = "zip"

\* re.compile(self.pattern).search(e)
Matches(e) == e[1] = pattern

\* re.compile('\.shp$').search(e)
IsShp(e) == e[3] = "shp"

(***************************************************************************)
(* The temp directory.  An extracted file is [name, zip]: its path under   *)
(* tmpDir is its entry name, and zip (the index of the archive it was read *)
(* from) tells two files of the same name apart.  The program itself only  *)
(* ever uses the name.                                                     *)
(***************************************************************************)
\* z.extract(e, self.tmpDir), for every e of es: a file of the same name is replaced
ExtractAll(dsk, es) ==
  { f \in dsk : \A k \in 1..Len(es) : es[k].name # f.name } \cup Range(es)

\* self._deleteFile(os.path.join(self.tmpDir, f)) for every f of fs; errors swallowed
DeleteAll(dsk, fs) ==
  { f \in dsk : \A k \in 1..Len(fs) : fs[k].name # f.name }

(***************************************************************************)
(* ShapefileList                                                           *)
(***************************************************************************)
\* ShapefileList.__init__: the object after construction
NewShapefileList(bs) ==
  [ batchSize      |-> bs,
    shpList        |-> None,
    zipList        |-> None,
    zipIndex       |-> 0,       \* no attribute yet; _loadZipList sets it before any read
    tmpFiles       |-> None,    \* no attribute yet
    currentShp     |-> None,
    triggerCleanup |-> FALSE,
    cleanupFiles   |-> None ]   \* no attribute yet

\* _loadZipList: the paths (indices into files) of the zip files, in walk order
LoadZipList(s) ==
  [s EXCEPT !.zipList = Some(SelectSeq([k \in 1..Len(files) |-> k],
                                       LAMBDA k : IsZip(files[k]))),
            !.zipIndex = 0]

\* The entries of archive z that match the pattern, in namelist() order
MatchedEntries(z) ==
  LET es == files[z].entries
  IN  SelectSeq([k \in 1..Len(es) |-> [name |-> es[k], zip |-> z]],
                LAMBDA e : Matches(e.name))

\* ReadArchive without the failure of ZipFile() on an archive it cannot open
ReadArchiveUnchecked(z) ==
  [tmp |-> MatchedEntries(z),
   shp |-> SelectSeq(MatchedEntries(z), LAMBDA e : IsShp(e.name)),
   failed |-> <<>>]

\* One pass of the loop body of _loadShpList over archive z: what is appended to
\* tmpFiles and shpFiles, and whether the archive failed to open
ReadArchive(z) ==
  IF files[z].ok
  THEN [tmp |-> MatchedEntries(z),
        shp |-> SelectSeq(MatchedEntries(z), LAMBDA e : IsShp(e.name)),
        failed |-> <<>>]
  ELSE [tmp |-> <<>>, shp |-> <<>>, failed |-> <<z>>]

\* BatchFull stopping one shapefile late
BatchFullStrict(shpFiles, bs) == Len(shpFiles) > bs

\* if len(shpFiles) >= self.batchSize: break
BatchFull(shpFiles, bs) == Len(shpFiles) >= bs

\* NextIndex stepping over an archive
NextIndexSkip(i) == i + 2

\* self.zipIndex = i + 1
NextIndex(i) == i + 1

\* The for loop of _loadShpList from archive index i (0-based, as in the code)
RECURSIVE ScanFrom(_, _, _, _)
ScanFrom(zl, bs, i, acc) ==
  IF i >= Len(zl)
  THEN acc
  ELSE LET r    == ReadArchive(zl[i + 1])
           acc2 == [shp      |-> acc.shp \o r.shp,
                    tmp      |-> acc.tmp \o r.tmp,
                    failed   |-> acc.failed \o r.failed,
                    zipIndex |-> NextIndex(i)]
       IN  IF BatchFull(acc2.shp, bs)
           THEN acc2
           ELSE ScanFrom(zl, bs, acc2.zipIndex, acc2)

\* ScanStart forgetting the cursor
ScanStartZero(s) == 0

\* range(self.zipIndex, len(self.zipList)): where a scan resumes
ScanStart(s) == s.zipIndex

\* _loadShpList: a record of the object, the temp directory and the output
LoadShpList(st) ==
  LET s == st.sl
      r == ScanFrom(Get(s.zipList), s.batchSize, ScanStart(s),
                    [shp |-> <<>>, tmp |-> <<>>, failed |-> <<>>,
                     zipIndex |-> s.zipIndex])
  IN  [sl   |-> [s EXCEPT !.shpList = Some(r.shp), !.tmpFiles = Some(r.tmp),
                          !.zipIndex = r.zipIndex],
       disk |-> ExtractAll(st.disk, r.tmp),
       out  |-> st.out \o r.failed]

\* not self.zipList
NoZipList(s) == s.zipList = None \/ Get(s.zipList) = <<>>

\* not self.shpList or len(self.shpList) == 0
NoShpList(s) == s.shpList = None \/ Get(s.shpList) = <<>>

\* HasNextCall answering from the list as it was before the refill
HasNextCallStale(st) ==
  LET st1 == IF NoZipList(st.sl) THEN [st EXCEPT !.sl = LoadZipList(st.sl)] ELSE st
      st2 == IF NoShpList(st1.sl) THEN LoadShpList(st1) ELSE st1
  IN  [st |-> st2, ret |-> ~NoShpList(st1.sl)]

\* hasNext: the state after the call, and its return value
HasNextCall(st) ==
  LET st1 == IF NoZipList(st.sl) THEN [st EXCEPT !.sl = LoadZipList(st.sl)] ELSE st
      st2 == IF NoShpList(st1.sl) THEN LoadShpList(st1) ELSE st1
  IN  [st |-> st2, ret |-> ~NoShpList(st2.sl)]

\* if self.shpList and len(self.shpList) == 1
LastOfBatch(s) == ~NoShpList(s) /\ Len(Get(s.shpList)) = 1

\* next: the state after the call, and its return value
NextCall(st) ==
  LET \* the deferred deletion; an unset _cleanupFiles is swallowed by the except
      st1 == IF st.sl.triggerCleanup
             THEN [st EXCEPT !.disk = IF st.sl.cleanupFiles = None THEN st.disk
                                      ELSE DeleteAll(st.disk, Get(st.sl.cleanupFiles)),
                             !.sl.triggerCleanup = FALSE]
             ELSE st
      st2 == IF LastOfBatch(st1.sl)
             THEN [st1 EXCEPT !.sl.triggerCleanup = TRUE,
                              !.sl.cleanupFiles = st1.sl.tmpFiles]
             ELSE st1
      h   == HasNextCall(st2)
  IN  IF ~h.ret
      THEN [st |-> h.st, ret |-> False]
      ELSE [st  |-> [h.st EXCEPT !.sl.currentShp = Some(Head(Get(h.st.sl.shpList))),
                                 !.sl.shpList = Some(Tail(Get(h.st.sl.shpList)))],
            ret |-> Some(Head(Get(h.st.sl.shpList)))]

\* cleanup: an unset tmpFiles is swallowed by the except
CleanupCall(st) ==
  [st EXCEPT !.disk = IF st.sl.tmpFiles = None THEN st.disk
                      ELSE DeleteAll(st.disk, Get(st.sl.tmpFiles)),
             !.sl.zipList = None,
             !.sl.shpList = None]

(***************************************************************************)
(* The calls a user of ShapefileList makes.                                *)
(***************************************************************************)
State == [sl |-> sl, disk |-> disk, out |-> out]

\* The local variables of _createSql as it starts; pc = "idle" when it is not run
NewCreateSql(pc) ==
  [ pc        |-> pc,
    fileNum   |-> 1,
    end       |-> FALSE,
    append    |-> FALSE,
    create    |-> TRUE,
    shapefile |-> None,
    h         |-> None,
    error     |-> None ]   \* the exception that ended the run, when one did

InitOver(kinds, maxFiles, exts, pc) ==
  /\ files \in UNION { [1..n -> kinds] : n \in 0..maxFiles }
  /\ disk = {}
  /\ \E bs \in BatchSizes : sl = NewShapefileList(bs)
  /\ out = <<>>
  /\ yielded = <<>>
  /\ lastCall = "none"
  /\ lastRet = None
  /\ lastNext = None
  /\ doneNow = {}
  /\ doneBefore = {}
  /\ cleanups = 0
  /\ outExt \in exts
  /\ ctl = NewCreateSql(pc)
  /\ segs = <<>>
  /\ calls = <<>>
  /\ cwd = "curDir"

InitWith(maxFiles, exts, pc) == InitOver(FileKinds, maxFiles, exts, pc)

\* A ShapefileList just constructed, used directly
Init == InitWith(MaxFiles, {"sql"}, "idle")

\* A call of hasNext(), whoever makes it
DoHasNext ==
  LET r == HasNextCall(State)
  IN  /\ sl' = r.st.sl
      /\ disk' = r.st.disk
      /\ out' = r.st.out
      /\ lastCall' = "hasNext"
      /\ lastRet' = r.ret
      /\ UNCHANGED <<files, yielded, lastNext, doneNow, doneBefore, cleanups>>

\* A call of next(), whoever makes it
DoNext ==
  LET r == NextCall(State)
  IN  /\ sl' = r.st.sl
      /\ disk' = r.st.disk
      /\ out' = r.st.out
      /\ lastCall' = "next"
      /\ lastRet' = r.ret
      /\ lastNext' = r.ret
      /\ yielded' = IF r.ret = False THEN yielded ELSE Append(yielded, Get(r.ret))
      /\ doneBefore' = doneBefore \cup doneNow
      /\ doneNow' = IF r.ret # False /\ Get(r.st.sl.shpList) = <<>>
                    THEN Range(Get(r.st.sl.tmpFiles))
                    ELSE {}
      /\ UNCHANGED <<files, cleanups>>

hasNext == ctl.pc = "idle" /\ DoHasNext /\ UNCHANGED runVars

next == ctl.pc = "idle" /\ DoNext /\ UNCHANGED runVars

cleanup ==
  LET st == CleanupCall(State)
  IN  /\ ctl.pc = "idle"
      /\ cleanups < MaxCleanups
      /\ sl' = st.sl
      /\ disk' = st.disk
      /\ out' = st.out
      /\ lastCall' = "cleanup"
      /\ lastRet' = None
      /\ cleanups' = cleanups + 1
      /\ UNCHANGED <<files, yielded, lastNext, doneNow, doneBefore>>
      /\ UNCHANGED runVars

\* hasNext() and next() in any order, no cleanup()
NextIter == hasNext \/ next

SpecIter == Init /\ [][NextIter]_vars

\* hasNext(), next() and cleanup() in any order
Next == hasNext \/ next \/ cleanup

Spec == Init /\ [][Next]_vars

(***************************************************************************)
(* CanvecExtractor._createSql                                              *)
(***************************************************************************)
MiB == 1024 * 1024

\* maxSqlSize = 100 * 1024 * 1024
maxSqlSize == 100 * MiB

\* What one shp2pgsql run writes to its stdout when it exits with status 0
WriteSizes == { 10 * MiB, 40 * MiB, 60 * MiB }

RECURSIVE Sum(_)
Sum(s) == IF s = <<>> THEN 0 ELSE Head(s) + Sum(Tail(s))

\* os.path.getsize of output file n
GetSize(sg, n) == Sum(sg[n])

\* open(outFile, 'wb'): output file n is created, or truncated
OpenWb(sg, n) == [k \in DOMAIN sg \cup {n} |-> IF k = n THEN <<>> ELSE sg[k]]

\* if create: "-d" else: "-a"
ModeSwitch(create) == IF create THEN "-d" ELSE "-a"

\* TooLarge measuring against twice the threshold
TooLargeTwice(size) == size > 2 * maxSqlSize

\* TooLarge rotating already at the threshold
TooLargeAtThreshold(size) == size >= maxSqlSize

\* if os.path.getsize(outFile) > maxSqlSize
TooLarge(size) == size > maxSqlSize

\* CreateAfter dropping the table again in every new output file
CreateAfterPerFile(create, rotated) == rotated

\* create = False, at the end of every pass of the loop
CreateAfter(create, rotated) == FALSE

\* What extract() and ShapefileList.__init__ reject: an argument that is None,
\* a canvec directory that cannot be accessed, an empty pattern.  Each is named
\* by the message of the exception raised for it.
ArgDefects ==
  { "No output file.", "No pattern string.", "No schema name.", "No table name.",
    "No canvec dir.", "No temp dir.", "The canvec dir doesn't seem to exist.",
    "The pattern parameter is required." }

\* extract(): the parameter checks, the ShapefileList (the one of the initial
\* state; extract() itself passes no batchSize, so gets the default) and the
\* call of _createSql
extract ==
  /\ ctl.pc = "extract"
  /\ \/ \E d \in ArgDefects : ctl' = [ctl EXCEPT !.pc = "raised", !.error = Some(d)]
     \/ ctl' = [ctl EXCEPT !.pc = "next"]
  /\ UNCHANGED slVars
  /\ UNCHANGED <<outExt, segs, calls, cwd>>

\* shapefile = self._shapeFileList.next(); if not shapefile: print "Done"; return
createSqlNext ==
  /\ ctl.pc = "next"
  /\ DoNext
  /\ ctl' = [ctl EXCEPT !.shapefile = lastRet',
                        !.pc = IF lastRet' = False THEN "done" ELSE "hasNext"]
  /\ UNCHANGED <<outExt, segs, calls, cwd>>

\* if not self._shapeFileList.hasNext(): end = True
createSqlHasNext ==
  /\ ctl.pc = "hasNext"
  /\ DoHasNext
  /\ ctl' = [ctl EXCEPT !.end = IF ~lastRet' THEN TRUE ELSE @,
                        !.pc = "popen"]
  /\ UNCHANGED <<outExt, segs, calls, cwd>>

\* The output file is opened unless appending; args are built; chdir(tmpDir);
\* subprocess.Popen(args, stdout=h) starts shp2pgsql, or raises
createSqlPopen ==
  /\ ctl.pc = "popen"
  /\ UNCHANGED slVars
  /\ UNCHANGED outExt
  /\ IF ~ctl.append /\ outExt = "gz"
     THEN \* raise Exception('Zipping doesn't work right now.')
          /\ ctl' = [ctl EXCEPT !.pc = "raised",
                                !.error = Some("Zipping doesn't work right now.")]
          /\ UNCHANGED <<segs, calls, cwd>>
     ELSE LET h   == IF ctl.append THEN ctl.h ELSE Some(ctl.fileNum)
              arg == [ shp   |-> Get(ctl.shapefile),
                       mode  |-> ModeSwitch(ctl.create),
                       index |-> ctl.end,
                       seg   |-> Get(h),
                       size  |-> 0,
                       status |-> "running" ]
          IN  /\ segs' = IF ctl.append THEN segs ELSE OpenWb(segs, ctl.fileNum)
              /\ cwd' = "tmpDir"
              /\ \/ /\ calls' = Append(calls, arg)
                    /\ ctl' = [ctl EXCEPT !.h = h, !.pc = "wait"]
                 \/ /\ calls' = Append(calls, [arg EXCEPT !.status = "nolaunch"])
                    /\ ctl' = [ctl EXCEPT !.h = h, !.pc = "raised",
                                          !.error = Some("OSError")]

\* p.wait(); chdir(curDir); the size check and the rotation; create = False
createSqlWait ==
  /\ ctl.pc = "wait"
  /\ UNCHANGED slVars
  /\ UNCHANGED outExt
  /\ \E res \in { [status |-> "exit0", size |-> s] : s \in WriteSizes }
                  \cup { [status |-> "exit1", size |-> 0] } :
       LET sg      == [segs EXCEPT ![Get(ctl.h)] = Append(@, res.size)]
           rotated == TooLarge(GetSize(sg, ctl.fileNum))
       IN  /\ segs' = sg
           /\ calls' = [calls EXCEPT ![Len(calls)].status = res.status,
                                     ![Len(calls)].size = res.size]
           /\ cwd' = "curDir"
           /\ ctl' = [ctl EXCEPT !.fileNum = IF rotated THEN @ + 1 ELSE @,
                                 !.append = ~rotated,
                                 !.h = IF rotated THEN None ELSE @,
                                 !.create = CreateAfter(ctl.create, rotated),
                                 !.pc = "next"]

\* A call of extract(), with an outFile that ends in .sql or in .gz
InitRun == InitWith(MaxRunFiles, {"sql", "gz"}, "extract")

NextRun ==
  extract \/ createSqlNext \/ createSqlHasNext \/ createSqlPopen \/ createSqlWait

SpecRun == InitRun /\ [][NextRun]_vars

\* The same call with a .sql outFile, over a data directory of up to MaxFiles
\* files, among them an archive that holds the one shapefile FO 2
InitDrive ==
  InitOver(FileKinds \cup { [ext |-> "zip", ok |-> TRUE,
                              entries |-> << <<"FO", 2, "shp">> >>] },
           MaxFiles, {"sql"}, "extract")

SpecDrive == InitDrive /\ [][NextRun]_vars

(***************************************************************************)
(* What the claims speak of.                                               *)
(***************************************************************************)
IsPrefix(s, t) == Len(s) <= Len(t) /\ SubSeq(t, 1, Len(s)) = s

\* The last call was a next() that reported no more data.
Exhausted == lastCall = "next" /\ lastRet = False

\* The shapefile entries of file k that match the pattern, in archive order.
ShapefilesOf(k) ==
  IF files[k].ext = "zip" /\ files[k].ok
  THEN LET es == files[k].entries
           ix == SelectSeq([j \in 1..Len(es) |-> j],
                           LAMBDA j : es[j][1] = pattern /\ es[j][3] = "shp")
       IN  [j \in 1..Len(ix) |-> [name |-> es[ix[j]], zip |-> k]]
  ELSE <<>>

\* Those of the files 1..k, in walk order.
RECURSIVE ShapefilesUpTo(_)
ShapefilesUpTo(k) ==
  IF k = 0 THEN <<>> ELSE ShapefilesUpTo(k - 1) \o ShapefilesOf(k)

ExpectedYield == ShapefilesUpTo(Len(files))

\* The extracted files a dataset d needs: the entries of its archive that match
\* the pattern and share its name up to the extension.
FilesOfDataset(d) ==
  { [name |-> n, zip |-> d.zip] :
      n \in { m \in Range(files[d.zip].entries) :
                m[1] = d.name[1] /\ m[2] = d.name[2] /\ m[1] = pattern } }

\* The dataset an extracted file f belongs to, when its archive holds one.
DatasetsOf(f) ==
  { d \in Range(ShapefilesOf(f.zip)) : f \in FilesOfDataset(d) }

(***************************************************************************)
(* C1: every temp file extracted for a batch is deleted by the end of the  *)
(* first next() call that follows the next() call that returned the        *)
(* batch's last shapefile.  As stated, the code violates it.               *)
(***************************************************************************)
C1_DeletedOneCallLater == doneBefore \cap disk = {}

(***************************************************************************)
(* C2: the files of the dataset most recently returned by next() exist     *)
(* until next() is called again; no step deletes a file whose dataset has  *)
(* not been returned yet; hasNext() deletes nothing.  As stated, the code  *)
(* violates it when two archives hold an entry of the same name.           *)
(***************************************************************************)
Paths(dsk) == { f.name : f \in dsk }

C2_CurrentFilesExist ==
  lastNext # None =>
    { f.name : f \in FilesOfDataset(Get(lastNext)) } \subseteq Paths(disk)

C2_NoEarlyDelete ==
  \A f \in disk : f.name \notin Paths(disk') => DatasetsOf(f) \subseteq Range(yielded)

C2_HasNextKeeps == lastCall' = "hasNext" => Paths(disk) \subseteq Paths(disk')

C2_NotDeletedEarly ==
  [](C2_CurrentFilesExist) /\ [][C2_NoEarlyDelete /\ C2_HasNextKeeps]_vars

(***************************************************************************)
(* C3: next() called until it reports no more data yields exactly the      *)
(* entries that match the pattern and the shapefile suffix, each once.     *)
(***************************************************************************)
C3_EachShapefileOnce ==
  /\ IsPrefix(yielded, ExpectedYield)
  /\ Exhausted => yielded = ExpectedYield

C3_Witness ==
  /\ Exhausted
  /\ Len(yielded) = 3
  /\ sl.batchSize = 1
  /\ \E k \in 1..Len(files) : files[k].entries = << <<"BS", 1, "shp">> >>

(***************************************************************************)
(* C4: for any batch size the sequence next() yields is the sequence it     *)
(* yields with an unbounded batch size, that is, what one scan of all the   *)
(* archives with a batch size no scan can reach puts in the shapefile list. *)
(***************************************************************************)
RECURSIVE EntriesUpTo(_)
EntriesUpTo(k) == IF k = 0 THEN 0 ELSE EntriesUpTo(k - 1) + Len(files[k].entries)

UnboundedBatch == 1 + EntriesUpTo(Len(files))

UnboundedYield ==
  ScanFrom(Get(LoadZipList(sl).zipList), UnboundedBatch, 0,
           [shp |-> <<>>, tmp |-> <<>>, failed |-> <<>>, zipIndex |-> 0]).shp

C4_SameAsUnbounded ==
  /\ IsPrefix(yielded, UnboundedYield)
  /\ Exhausted => yielded = UnboundedYield

C4_Witness ==
  /\ Exhausted
  /\ sl.batchSize = 1
  /\ Len(yielded) = 4
  /\ doneBefore # {}

C8_CleanupLeavesNothing ==
  lastCall = "cleanup" /\ cleanups = 1 => disk = {}

(***************************************************************************)
(* C9: cleanup() called before anything was extracted, after next() has    *)
(* reported no more data, or right after another cleanup(), leaves no      *)
(* extracted file, and the second of two consecutive calls changes         *)
(* nothing.  As stated, the code violates it.                              *)
(***************************************************************************)
C9_CleanupStep ==
  lastCall' = "cleanup" =>
    /\ lastCall = "none" \/ Exhausted \/ lastCall = "cleanup" => disk' = {}
    /\ lastCall = "cleanup" => sl' = sl /\ disk' = disk /\ out' = out

C9_CleanupIdempotent == [][C9_CleanupStep]_vars

(***************************************************************************)
(* C5: the first shp2pgsql invocation of a run, and no other, drops and    *)
(* creates the table (-d); every later one appends (-a), the first one     *)
(* written to a new output file included.                                  *)
(***************************************************************************)
C5_CreateOnlyFirst ==
  \A k \in 1..Len(calls) : calls[k].mode = IF k = 1 THEN "-d" ELSE "-a"

C5_Witness ==
  /\ ctl.pc = "done"
  /\ \E k \in 2..Len(calls) :
       /\ calls[k].seg = 2
       /\ calls[k - 1].seg = 1
       /\ calls[k].mode = "-a"
       /\ calls[k].status = "exit0"

(***************************************************************************)
(* C6: in a run that converts at least one dataset exactly one invocation  *)
(* carries the index switch (-I), and it is the last one of the run.  As   *)
(* stated, the code violates it: a shp2pgsql that cannot be launched ends  *)
(* the run before its last dataset.                                        *)
(***************************************************************************)
RunOver == ctl.pc \in {"done", "raised"}

Converted == { k \in 1..Len(calls) : calls[k].status = "exit0" }

C6_IndexOnceOnLast ==
  RunOver /\ Converted # {} =>
    { k \in 1..Len(calls) : calls[k].index } = { Len(calls) }

(***************************************************************************)
(* C7: after an invocation the next dataset goes to a new output file,     *)
(* numbered one higher, exactly when the size of the current output file   *)
(* is then greater than maxSqlSize, and is appended to the same file        *)
(* otherwise; writes of 60, 60 and 10 MiB put the first two in file 1 and   *)
(* the third in file 2.                                                    *)
(***************************************************************************)
\* The sizes written by the invocations 1..k that went to output file n.
RECURSIVE WritesUpTo(_, _)
WritesUpTo(k, n) ==
  IF k = 0 THEN <<>>
  ELSE WritesUpTo(k - 1, n)
         \o (IF calls[k].seg = n /\ calls[k].status \in {"exit0", "exit1"}
             THEN <<calls[k].size>> ELSE <<>>)

C7_RotatesIffTooLarge ==
  /\ \A k \in 1..(Len(calls) - 1) :
       calls[k + 1].seg =
         IF Sum(WritesUpTo(k, calls[k].seg)) > maxSqlSize
         THEN calls[k].seg + 1
         ELSE calls[k].seg
  /\ \A n \in DOMAIN segs : segs[n] = WritesUpTo(Len(calls), n)
  /\ ctl.pc = "next" /\ calls # <<>> =>
       /\ ctl.append = (Sum(segs[calls[Len(calls)].seg]) <= maxSqlSize)
       /\ ctl.fileNum = calls[Len(calls)].seg + (IF ctl.append THEN 0 ELSE 1)

C7_Witness ==
  /\ ctl.pc = "done"
  /\ [k \in 1..Len(calls) |-> calls[k].size]
       = << 60 * 1024 * 1024, 60 * 1024 * 1024, 10 * 1024 * 1024 >>
  /\ DOMAIN segs = {1, 2}
  /\ segs[1] = << 60 * 1024 * 1024, 60 * 1024 * 1024 >>
  /\ segs[2] = << 10 * 1024 * 1024 >>

(***************************************************************************)
(* C11: a shp2pgsql invocation that exits with a non-zero status or cannot *)
(* be launched does not end the run: every dataset after it is still       *)
(* pulled and handed to shp2pgsql, and the run ends normally when at least *)
(* one dataset was converted.  As stated, the code violates it: an         *)
(* exception of Popen leaves _createSql.                                   *)
(***************************************************************************)
Failed == { k \in 1..Len(calls) : calls[k].status \in {"exit1", "nolaunch"} }

C11_ContinuesAfterFailure ==
  RunOver /\ outExt = "sql" /\ Failed # {} =>
    /\ [k \in 1..Len(calls) |-> calls[k].shp] = ExpectedYield
    /\ Converted # {} => ctl.pc = "done"

(***************************************************************************)
(* C12: a run in which shp2pgsql was invoked and converted no dataset ends *)
(* with an error, not with "Done".  As stated, the code violates it: the   *)
(* exit status of shp2pgsql is never looked at.                            *)
(***************************************************************************)
C12_ZeroConvertedIsFatal ==
  ctl.pc = "done" /\ calls # <<>> => Converted # {}

Front(w) == IF w = <<>> THEN <<>> ELSE SubSeq(w, 1, Len(w) - 1)

ConfigurationError == ctl.pc = "raised" /\ ctl.error # Some("OSError")

C14_RaisedBeforeExtraction ==
  ConfigurationError =>
    /\ sl.zipList = None
    /\ sl.zipIndex = 0
    /\ out = <<>>
    /\ disk = {}
    /\ calls = <<>>

(***************************************************************************)
(* C17: the current working directory is the temp directory only while a   *)
(* shp2pgsql invocation is in progress; after it, whether it succeeded,    *)
(* exited with a non-zero status or could not be launched, it is what it   *)
(* was before.  As stated, the code violates it: an exception of Popen     *)
(* skips the chdir back.                                                   *)
(***************************************************************************)
C17_CwdRestored == ctl.pc # "wait" => cwd = "curDir"

(***************************************************************************)
(* C19: the output files a run creates are numbered 1..k without a gap,    *)
(* every invocation writes to one of them, every one of them has received  *)
(* the output of an invocation when the run is over, and a run without a   *)
(* dataset creates none.  As stated, the code violates it: a shp2pgsql     *)
(* that cannot be launched leaves the file opened for it empty.            *)
(***************************************************************************)
C19_SegmentsNumbered ==
  /\ DOMAIN segs = 1..Cardinality(DOMAIN segs)
  /\ \A k \in 1..Len(calls) : calls[k].seg \in DOMAIN segs
  /\ RunOver => \A n \in DOMAIN segs : segs[n] # <<>>
  /\ RunOver /\ yielded = <<>> => DOMAIN segs = {}

(***************************************************************************)
(* C15: over any calls of hasNext(), next() and cleanup() the cursor       *)
(* zipIndex never decreases, the archive list is not loaded again once an  *)
(* archive has been scanned, and no shapefile is yielded a second time.    *)
(* As stated, the code violates it: cleanup() drops the archive list, and  *)
(* the next hasNext() starts over.                                         *)
(***************************************************************************)
C15_Step ==
  /\ sl'.zipIndex >= sl.zipIndex
  /\ sl.zipList = None /\ sl'.zipList # None => sl.zipIndex = 0
  /\ yielded' # yielded => yielded'[Len(yielded')] \notin Range(yielded)

C15_NeverRescanned == [][C15_Step]_vars

(***************************************************************************)
(* C16: a scan takes whole archives from the cursor on and stops at the    *)
(* first archive after which it holds at least batchSize shapefiles, or at *)
(* the end of the archive list: the batch is all the matching entries of   *)
(* the archives it passed (so may hold more than batchSize shapefiles), no *)
(* archive is read once the limit is reached, and a scan that stops before *)
(* the end of the list holds at least batchSize shapefiles.                *)
(***************************************************************************)
\* The matching entries of the archives zl[i+1..j] that can be opened.
RECURSIVE Span(_, _, _)
Span(zl, i, j) ==
  IF j <= i THEN <<>>
  ELSE LET z  == zl[j]
           es == files[z].entries
           ix == SelectSeq([k \in 1..Len(es) |-> k], LAMBDA k : es[k][1] = pattern)
       IN  Span(zl, i, j - 1)
             \o (IF files[z].ok THEN [k \in 1..Len(ix) |-> [name |-> es[ix[k]], zip |-> z]]
                 ELSE <<>>)

ShpCount(es) == Len(SelectSeq(es, LAMBDA e : e.name[3] = "shp"))

C16_Step ==
  LET i  == sl.zipIndex
      j  == sl'.zipIndex
      zl == Get(sl'.zipList)
  IN  sl'.zipList # None /\ (sl'.tmpFiles # sl.tmpFiles \/ j # i) =>
        /\ i <= j
        /\ Get(sl'.tmpFiles) = Span(zl, i, j)
        /\ j < Len(zl) => ShpCount(Span(zl, i, j)) >= sl.batchSize
        /\ j > i => ShpCount(Span(zl, i, j - 1)) < sl.batchSize

C16_WholeArchivesUntilFull == [][C16_Step]_vars

\* Batch size 2 over three archives: the first batch takes the first two, holds
\* three shapefiles and a sidecar, and leaves the third archive to the next scan.
C16_Witness ==
  /\ sl.batchSize = 2
  /\ sl.zipList # None /\ Len(Get(sl.zipList)) = 3
  /\ sl.zipIndex = 2
  /\ sl.tmpFiles # None /\ Len(Get(sl.tmpFiles)) = 4
  /\ ShpCount(Get(sl.tmpFiles)) = 3

(***************************************************************************)
(* C18: at every point of a run of _createSql the files in the temp        *)
(* directory belong to at most two batches.  As stated, the code violates  *)
(* it: the files of the first batch stay while later batches come and go.  *)
(***************************************************************************)
\* The zip files of the data directory, in walk order.
ZipPaths == SelectSeq([k \in 1..Len(files) |-> k], LAMBDA k : files[k].ext = "zip")

\* Where the scan that starts after the first i archives stops.
RECURSIVE BatchEnd(_, _)
BatchEnd(i, j) ==
  IF j >= Len(ZipPaths) \/ ShpCount(Span(ZipPaths, i, j)) >= sl.batchSize
  THEN j
  ELSE BatchEnd(i, j + 1)

\* The number of the batch that holds the p-th archive, the batch that starts
\* after the first i archives being batch n.
RECURSIVE BatchNo(_, _, _)
BatchNo(p, i, n) ==
  IF p <= BatchEnd(i, i + 1) THEN n ELSE BatchNo(p, BatchEnd(i, i + 1), n + 1)

BatchesOnDisk ==
  { BatchNo(Cardinality({ k \in 1..Len(ZipPaths) : ZipPaths[k] <= f.zip }), 0, 1) :
      f \in disk }

C20_Step ==
  /\ lastCall' = "hasNext" =>
       /\ yielded' = yielded
       /\ lastRet' = (yielded # ExpectedYield)
  /\ lastCall' = "next" =>
       IF yielded = ExpectedYield
       THEN lastRet' = False /\ yielded' = yielded
       ELSE /\ lastRet' = Some(ExpectedYield[Len(yielded) + 1])
            /\ yielded' = Append(yielded, ExpectedYield[Len(yielded) + 1])

C20_HasNextIsQuery == [][C20_Step]_vars

\* hasNext() asked again after the third and last shapefile: false.
C20_Witness ==
  /\ lastCall = "hasNext"
  /\ lastRet = FALSE
  /\ Len(yielded) = 3
  /\ sl.batchSize = 1
  /\ Len(files) = 3

=============================================================================
